---- MODULE Spec2Model ----
(***************************************************************************)
(* Model of the request engine of geoh/how: api.GenerateResponse, the      *)
(* retry loop around one HTTP exchange with the Gemini endpoint, and the   *)
(* decoding of the response into an answer or a typed error.  Around it,   *)
(* main's handling of the result, ui.CleanResponse and the spinner of      *)
(* package ui.                                                             *)
(*                                                                         *)
(* Strings are sequences of one-character strings, so that                 *)
(* strings.TrimSpace is computed and not assumed.  A transport error       *)
(* message is a sequence of fragments; strings.Contains is membership of   *)
(* a fragment.  fmt.Sprintf results are kept as the format string plus     *)
(* the argument list.  Sleep durations are in seconds.                     *)
(***************************************************************************)
EXTENDS Integers, Sequences, FiniteSets, TLC

VARIABLES maxRetries, pc, attempt, resp, result, sleeps, outcomes,
          howModel, url, reqBody, sent, mpc, out, cmds,
          rawText, cleanedText, silent, spc, stop, wg

\* The request of the call: HOW_MODEL, the endpoint URL and the request body.
reqVars == <<howModel, url, reqBody>>

\* The argument of ui.CleanResponse and, once it has been called, its result.
cleanVars == <<rawText, cleanedText>>

\* The spinner: the -s flag, the position of the animation goroutine, whether
\* the stop channel is closed, and the counter of the wait group.
spinVars == <<silent, spc, stop, wg>>

\* The caller, main: its position and what it has written or delivered.
mainVars == <<mpc, out, cmds, cleanVars, spinVars>>

vars == <<maxRetries, pc, attempt, resp, result, sleeps, outcomes,
          howModel, url, reqBody, sent, mpc, out, cmds,
          rawText, cleanedText, silent, spc, stop, wg>>

(***************************************************************************)
(* Bounds of the model.                                                    *)
(***************************************************************************)
MaxRetriesBound == 3
MaxCandidates == 2
MaxParts == 2
MaxTextLen == 10

SeqUpTo(S, n) == UNION {[1..k -> S] : k \in 0..n}

(***************************************************************************)
(* Inputs: the caller's retry budget and what the network can deliver.     *)
(***************************************************************************)
RetriesRange == (0 - 1)..MaxRetriesBound

Whitespace == {" ", "\n", "\t"}

\* The backquote character (U+0060) of a code fence.
Backquote == "BQ"

Texts ==
  { <<>>,
    <<" ", "\n">>,
    <<"l", "s">>,
    <<Backquote, "l", "s", Backquote>>,
    <<" ", "l", "s", " ", "-", "l", "\t", "\n">> }

\* Parts after the first one of a candidate.
LaterTexts == { <<" ">>, <<"p", "w", "d">> }

Parts ==
  {<<>>} \cup
  {<<t>> \o rest : t \in Texts, rest \in SeqUpTo(LaterTexts, MaxParts - 1)}

CandidateSet == {[Parts |-> p] : p \in Parts}

\* Candidates after the first one of a response.
LaterCandidates == { [Parts |-> <<>>], [Parts |-> << <<"p", "w", "d">> >>] }

CandidateLists ==
  {<<>>} \cup
  {<<c>> \o rest : c \in CandidateSet,
                   rest \in SeqUpTo(LaterCandidates, MaxCandidates - 1)}

PromptFeedbacks == {<<>>, <<"">>, <<"SAFETY">>}

UnparsableBody == [ok |-> FALSE, PromptFeedback |-> <<>>, Candidates |-> <<>>]

Bodies ==
  {UnparsableBody} \cup
  [ok : {TRUE}, PromptFeedback : PromptFeedbacks, Candidates : CandidateLists]

StatusCodes == {200, 201, 429, 500}

\* Values of the environment variable HOW_MODEL, as sequences of fragments;
\* the empty sequence is the unset (or empty) variable.
HowModels ==
  { <<>>,
    <<"gemini-pro">>,
    <<"models/", "gemini-pro">>,
    <<"models/", "models/", "gemini-pro">> }

ApiKeys == {"AIza-key"}

Prompts == { <<"l", "i", "s", "t">> }

NoURL == <<>>

NoBody == [Contents |-> <<>>]

TransportErrors ==
  { [timeout |-> TRUE,
     msg |-> <<"context ", "deadline exceeded",
               " (Client.Timeout exceeded while awaiting headers)">>],
    [timeout |-> TRUE,
     msg |-> <<"dial tcp: i/o ", "timeout">>],
    [timeout |-> FALSE,
     msg |-> <<"dial tcp: connect: connection refused">>] }

ReadErrors ==
  { [timeout |-> TRUE,
     msg |-> <<"context ", "deadline exceeded",
               " (Client.Timeout or context cancellation while reading body)">>],
    [timeout |-> FALSE,
     msg |-> <<"unexpected EOF">>] }

\* What client.Do can deliver: a status code and a body.
Responses == [StatusCode : StatusCodes, Body : Bodies]

NoResp == [StatusCode |-> 0, Body |-> UnparsableBody]

(***************************************************************************)
(* Results: (text, err) as returned by GenerateResponse.                   *)
(***************************************************************************)
NoErr == [kind |-> "nil", fmt |-> "", args |-> <<>>]

ApiError(f, a) == [kind |-> "Api", fmt |-> f, args |-> a]

ContentError(f, a) == [kind |-> "Content", fmt |-> f, args |-> a]

ApiTimeoutError(f, a) == [kind |-> "Timeout", fmt |-> f, args |-> a]

Return(text, err) == [op |-> "return", text |-> text, err |-> err, dur |-> 0]

SleepContinue(d) == [op |-> "continue", text |-> <<>>, err |-> NoErr, dur |-> d]

NoResult == [text |-> <<>>, err |-> NoErr]

(***************************************************************************)
(* Pure helpers.                                                           *)
(***************************************************************************)
Contains(msg, fragment) == \E i \in DOMAIN msg : msg[i] = fragment

RECURSIVE TrimLeft(_)
TrimLeft(s) ==
  IF s # <<>> /\ Head(s) \in Whitespace THEN TrimLeft(Tail(s)) ELSE s

RECURSIVE TrimRight(_)
TrimRight(s) ==
  IF s # <<>> /\ s[Len(s)] \in Whitespace
  THEN TrimRight(SubSeq(s, 1, Len(s) - 1))
  ELSE s

TrimSpaceLeftOnly(s) == TrimLeft(s)

TrimSpace(s) == TrimRight(TrimLeft(s))

IsTimeoutErrAny(err) == err.msg # <<>>

IsTimeoutErr(err) ==
  Contains(err.msg, "timeout") \/ Contains(err.msg, "deadline exceeded")

IsLastAttemptOffByOne(n, max) == n = max

IsLastAttempt(n, max) == n = max - 1

TimeoutBackoffFixed(n) == 1

TimeoutBackoffShifted(n) == 2 ^ (n + 1)

TimeoutBackoff(n) == 2 ^ n

RateLimitBackoffNoOffset(n) == 2 ^ n

RateLimitBackoff(n) == 2 ^ n + 1

(***************************************************************************)
(* Request encoding: model name, endpoint URL, request body.               *)
(***************************************************************************)
TrimPrefix(s, prefix) ==
  IF s # <<>> /\ Head(s) = prefix THEN Tail(s) ELSE s

ModelNameNoTrim(env) ==
  IF env = <<>> THEN <<"gemini-2.5-flash">> ELSE env

ModelName(env) ==
  TrimPrefix(IF env = <<>> THEN <<"gemini-2.5-flash">> ELSE env, "models/")

EndpointURL(modelName, apiKey) ==
  <<"https://generativelanguage.googleapis.com/v1beta/models/">>
    \o modelName \o <<":generateContent?key=", apiKey>>

GeminiRequest(prompt) ==
  [Contents |-> << [Parts |-> << [Text |-> prompt] >>] >>]

\* json.Marshal of the request body followed by http.NewRequest and the
\* Content-Type header.
NewRequest(u, body) ==
  [method |-> "POST", url |-> u, contentType |-> "application/json",
   json |-> <<"contents", body.Contents>>]

(***************************************************************************)
(* The body of one loop iteration after client.Do failed.                  *)
(***************************************************************************)
OnDoErrorLastIsTimeout(n, max, err) ==
  IF IsLastAttempt(n, max)
  THEN Return(<<>>, ApiTimeoutError("API request timed out", <<>>))
  ELSE IF IsTimeoutErr(err)
  THEN SleepContinue(TimeoutBackoff(n))
  ELSE Return(<<>>, ApiError("Request failed: %v", <<err.msg>>))

OnDoErrorSleepOnLast(n, max, err) ==
  IF IsTimeoutErr(err)
  THEN SleepContinue(TimeoutBackoff(n))
  ELSE Return(<<>>, ApiError("Request failed: %v", <<err.msg>>))

OnDoError(n, max, err) ==
  IF IsTimeoutErr(err)
  THEN IF IsLastAttempt(n, max)
       THEN Return(<<>>, ApiTimeoutError("API request timed out", <<>>))
       ELSE SleepContinue(TimeoutBackoff(n))
  ELSE Return(<<>>, ApiError("Request failed: %v", <<err.msg>>))

(***************************************************************************)
(* The body of one loop iteration after the response body has been read.   *)
(***************************************************************************)
ExtractTextNoPartsCheck(body) ==
  IF Len(body.Candidates) = 0 \/ Len(body.Candidates[1].Parts) = 0
  THEN Return(<<>>, ContentError("Empty response from API", <<>>))
  ELSE LET text == TrimSpace(body.Candidates[1].Parts[1])
       IN IF text = <<>>
          THEN Return(<<>>, ContentError("Empty response from API", <<>>))
          ELSE Return(text, NoErr)

ExtractTextFirstNonEmpty(body) ==
  IF Len(body.Candidates) = 0
  THEN Return(<<>>, ContentError("Empty response from API", <<>>))
  ELSE IF Len(body.Candidates[1].Parts) = 0
  THEN Return(<<>>, ContentError("No content parts in response", <<>>))
  ELSE LET parts == body.Candidates[1].Parts
           nonEmpty == {k \in DOMAIN parts : TrimSpace(parts[k]) # <<>>}
       IN IF nonEmpty = {}
          THEN Return(<<>>, ContentError("Empty response from API", <<>>))
          ELSE Return(TrimSpace(parts[CHOOSE k \in nonEmpty :
                                        \A j \in nonEmpty : k <= j]), NoErr)

ExtractTextNoEmptyCheck(body) ==
  IF Len(body.Candidates) = 0
  THEN Return(<<>>, ContentError("Empty response from API", <<>>))
  ELSE IF Len(body.Candidates[1].Parts) = 0
  THEN Return(<<>>, ContentError("No content parts in response", <<>>))
  ELSE Return(TrimSpace(body.Candidates[1].Parts[1]), NoErr)

ExtractText(body) ==
  IF Len(body.Candidates) = 0
  THEN Return(<<>>, ContentError("Empty response from API", <<>>))
  ELSE IF Len(body.Candidates[1].Parts) = 0
  THEN Return(<<>>, ContentError("No content parts in response", <<>>))
  ELSE LET text == TrimSpace(body.Candidates[1].Parts[1])
       IN IF text = <<>>
          THEN Return(<<>>, ContentError("Empty response from API", <<>>))
          ELSE Return(text, NoErr)

ParseResponseNoBlockCheck(body) ==
  IF ~body.ok
  THEN Return(<<>>, ApiError("Failed to parse response: %v", <<>>))
  ELSE ExtractText(body)

ParseResponseBlockCheckLast(body) ==
  IF ~body.ok
  THEN Return(<<>>, ApiError("Failed to parse response: %v", <<>>))
  ELSE LET extracted == ExtractText(body)
       IN IF extracted.err.kind = "nil"
          THEN extracted
          ELSE IF body.PromptFeedback # <<>> /\ body.PromptFeedback[1] # ""
          THEN Return(<<>>, ContentError("Blocked: %s",
                                         <<body.PromptFeedback[1]>>))
          ELSE extracted

ParseResponse(body) ==
  IF ~body.ok
  THEN Return(<<>>, ApiError("Failed to parse response: %v", <<>>))
  ELSE IF body.PromptFeedback # <<>> /\ body.PromptFeedback[1] # ""
  THEN Return(<<>>, ContentError("Blocked: %s", <<body.PromptFeedback[1]>>))
  ELSE ExtractText(body)

StatusIsOK(status) == status = 200

OnResponseRetryServerError(n, max, status, body) ==
  IF status = 429 \/ status >= 500
  THEN IF IsLastAttempt(n, max)
       THEN Return(<<>>, ApiError("Rate limit exceeded", <<>>))
       ELSE SleepContinue(RateLimitBackoff(n))
  ELSE IF ~StatusIsOK(status)
  THEN Return(<<>>, ApiError("API returned status %d: %s", <<status, body>>))
  ELSE ParseResponse(body)

OnResponseSleepOnLast(n, max, status, body) ==
  IF status = 429
  THEN SleepContinue(RateLimitBackoff(n))
  ELSE IF ~StatusIsOK(status)
  THEN Return(<<>>, ApiError("API returned status %d: %s", <<status, body>>))
  ELSE ParseResponse(body)

OnResponse(n, max, status, body) ==
  IF status = 429
  THEN IF IsLastAttempt(n, max)
       THEN Return(<<>>, ApiError("Rate limit exceeded", <<>>))
       ELSE SleepContinue(RateLimitBackoff(n))
  ELSE IF ~StatusIsOK(status)
  THEN Return(<<>>, ApiError("API returned status %d: %s", <<status, body>>))
  ELSE ParseResponse(body)

(***************************************************************************)
(* ui.CleanResponse and the command list main builds from the answer.      *)
(* A slice expression with bounds out of range panics.                     *)
(***************************************************************************)
HasPrefix(s, prefix) ==
  Len(s) >= Len(prefix) /\ SubSeq(s, 1, Len(prefix)) = prefix

HasSuffix(s, suffix) ==
  Len(s) >= Len(suffix) /\ SubSeq(s, Len(s) - Len(suffix) + 1, Len(s)) = suffix

\* strings.SplitN(text, "\n", 2)[0]
FirstLine(s) ==
  IF \E k \in DOMAIN s : s[k] = "\n"
  THEN LET k == CHOOSE k \in DOMAIN s :
                  s[k] = "\n" /\ \A j \in 1..(k - 1) : s[j] # "\n"
       IN SubSeq(s, 1, k - 1)
  ELSE s

\* s[lo:hi]
Slice(s, lo, hi) ==
  IF lo > hi \/ hi > Len(s) \/ lo < 0
  THEN [panic |-> TRUE, text |-> <<>>]
  ELSE [panic |-> FALSE, text |-> SubSeq(s, lo + 1, hi)]

Fence == <<Backquote, Backquote, Backquote>>

CleanResponse(text) ==
  LET t == TrimSpace(text)
  IN IF HasPrefix(t, Fence) /\ HasSuffix(t, Fence)
     THEN LET firstLine == FirstLine(t)
              cut == IF Len(firstLine) > 3
                     THEN Slice(t, Len(firstLine), Len(t) - 3)
                     ELSE Slice(t, 3, Len(t) - 3)
          IN IF cut.panic
             THEN cut
             ELSE [panic |-> FALSE, text |-> TrimSpace(TrimSpace(cut.text))]
     ELSE IF HasPrefix(t, <<Backquote>>) /\ HasSuffix(t, <<Backquote>>)
     THEN LET cut == Slice(t, 1, Len(t) - 1)
          IN IF cut.panic
             THEN cut
             ELSE [panic |-> FALSE, text |-> TrimSpace(TrimSpace(cut.text))]
     ELSE [panic |-> FALSE, text |-> TrimSpace(t)]

\* strings.Split(s, "\n")
RECURSIVE SplitLines(_)
SplitLines(s) ==
  IF \E k \in DOMAIN s : s[k] = "\n"
  THEN <<FirstLine(s)>>
         \o SplitLines(SubSeq(s, Len(FirstLine(s)) + 2, Len(s)))
  ELSE <<s>>

\* The trimmed, non-empty lines.
RECURSIVE FilterCommands(_)
FilterCommands(lines) ==
  IF lines = <<>>
  THEN <<>>
  ELSE LET trimmed == TrimSpace(Head(lines))
       IN (IF trimmed # <<>> THEN <<trimmed>> ELSE <<>>)
            \o FilterCommands(Tail(lines))

\* strings.Join(lines, "\n")
RECURSIVE JoinLines(_)
JoinLines(lines) ==
  IF lines = <<>> THEN <<>>
  ELSE IF Len(lines) = 1 THEN Head(lines)
  ELSE Head(lines) \o <<"\n">> \o JoinLines(Tail(lines))

(***************************************************************************)
(* State machine.                                                          *)
(***************************************************************************)
Init ==
  /\ maxRetries \in RetriesRange
  /\ howModel \in HowModels
  /\ url = NoURL
  /\ reqBody = NoBody
  /\ sent = <<>>
  /\ mpc = "call"
  /\ out = <<>>
  /\ cmds = <<>>
  /\ rawText = <<>>
  /\ cleanedText = <<>>
  /\ silent = TRUE
  /\ spc = "idle"
  /\ stop = FALSE
  /\ wg = 0
  /\ pc = "entry"
  /\ attempt = 0
  /\ resp = NoResp
  /\ result = NoResult
  /\ sleeps = <<>>
  /\ outcomes = <<>>

\* Carry out the decision of one loop iteration: return, or sleep and continue.
Apply(d) ==
  IF d.op = "return"
  THEN /\ pc' = "done"
       /\ result' = [text |-> d.text, err |-> d.err]
       /\ sleeps' = sleeps
  ELSE /\ pc' = "sleep"
       /\ result' = result
       /\ sleeps' = Append(sleeps, d.dur)

\* Entry of GenerateResponse: model name, URL and request body are built.
Entry ==
  /\ pc = "entry"
  /\ mpc = "call"
  /\ \E apiKey \in ApiKeys, prompt \in Prompts :
       /\ url' = EndpointURL(ModelName(howModel), apiKey)
       /\ reqBody' = GeminiRequest(prompt)
  /\ pc' = "loop"
  /\ UNCHANGED <<maxRetries, attempt, resp, result, sleeps, outcomes,
                 howModel, sent, mainVars>>

\* The loop sending the body only with the first request.
LoopCondBodyConsumed ==
  /\ pc = "loop"
  /\ IF attempt < maxRetries
     THEN /\ pc' = "do"
          /\ resp' = NoResp
          /\ result' = result
          /\ sent' = Append(sent,
                NewRequest(url, IF attempt = 0 THEN reqBody ELSE NoBody))
     ELSE /\ pc' = "done"
          /\ resp' = resp
          /\ result' = [text |-> <<>>,
                        err |-> ApiError("Max retries exceeded", <<>>)]
          /\ sent' = sent
  /\ UNCHANGED <<maxRetries, attempt, sleeps, outcomes, reqVars, mainVars>>

\* for attempt < maxRetries: marshal the body, create the request and start
\* the next exchange, or leave the loop.
LoopCond ==
  /\ pc = "loop"
  /\ IF attempt < maxRetries
     THEN /\ pc' = "do"
          /\ resp' = NoResp
          /\ result' = result
          /\ sent' = Append(sent, NewRequest(url, reqBody))
     ELSE /\ pc' = "done"
          /\ resp' = resp
          /\ result' = [text |-> <<>>,
                        err |-> ApiError("Max retries exceeded", <<>>)]
          /\ sent' = sent
  /\ UNCHANGED <<maxRetries, attempt, sleeps, outcomes, reqVars, mainVars>>

\* client.Do returns an error.
DoError ==
  /\ pc = "do"
  /\ \E err \in TransportErrors :
       /\ outcomes' = Append(outcomes,
            [kind |-> IF err.timeout THEN "timeout" ELSE "connfail",
             status |-> 0])
       /\ Apply(OnDoError(attempt, maxRetries, err))
  /\ UNCHANGED <<maxRetries, attempt, resp, reqVars, sent, mainVars>>

\* client.Do returns a response: status line and headers have arrived.
DoResponse ==
  /\ pc = "do"
  /\ resp' \in Responses
  /\ pc' = "read"
  /\ UNCHANGED <<maxRetries, attempt, result, sleeps, outcomes,
                 reqVars, sent, mainVars>>

\* io.ReadAll fails.
ReadError ==
  /\ pc = "read"
  /\ \E err \in ReadErrors :
       /\ outcomes' = Append(outcomes,
            [kind |-> IF err.timeout THEN "readtimeout" ELSE "readfail",
             status |-> resp.StatusCode])
       /\ Apply(Return(<<>>, ApiError("Failed to read response: %v", <<err.msg>>)))
  /\ UNCHANGED <<maxRetries, attempt, resp, reqVars, sent, mainVars>>

\* io.ReadAll succeeds and the response is classified.
ReadBody ==
  /\ pc = "read"
  /\ outcomes' = Append(outcomes, [kind |-> "status", status |-> resp.StatusCode])
  /\ Apply(OnResponse(attempt, maxRetries, resp.StatusCode, resp.Body))
  /\ UNCHANGED <<maxRetries, attempt, resp, reqVars, sent, mainVars>>

\* The loop without its post statement.
SleepReturnNoIncrement ==
  /\ pc = "sleep"
  /\ pc' = "loop"
  /\ UNCHANGED <<maxRetries, attempt, resp, result, sleeps, outcomes,
                 reqVars, sent, mainVars>>

\* time.Sleep returns; continue runs the loop's post statement attempt++.
SleepReturn ==
  /\ pc = "sleep"
  /\ attempt' = attempt + 1
  /\ pc' = "loop"
  /\ UNCHANGED <<maxRetries, resp, result, sleeps, outcomes,
                 reqVars, sent, mainVars>>

(***************************************************************************)
(* main, after api.GenerateResponse has returned.                          *)
(***************************************************************************)
Event(ev, data) == [ev |-> ev, data |-> data]

\* GenerateResponse has returned and, unless silent, spinner.Stop() has too.
AfterCall ==
  /\ pc = "done"
  /\ \/ silent /\ mpc = "call"
     \/ mpc = "stopped"

\* The error branch without its os.Exit(1).
MainErrorNoExit ==
  /\ AfterCall
  /\ result.err.kind # "nil"
  /\ out' = Append(out, Event("stderr", <<"Error: %v", result.err.fmt>>))
  /\ mpc' = "clip"
  /\ UNCHANGED <<maxRetries, pc, attempt, resp, result, sleeps, outcomes,
                 reqVars, sent, cmds, cleanVars, spinVars>>

\* err != nil: the error is written to stderr and the process exits.
MainError ==
  /\ AfterCall
  /\ result.err.kind # "nil"
  /\ out' = Append(out, Event("stderr", <<"Error: %v", result.err.fmt>>))
  /\ mpc' = "exit1"
  /\ UNCHANGED <<maxRetries, pc, attempt, resp, result, sleeps, outcomes,
                 reqVars, sent, cmds, cleanVars, spinVars>>

\* err == nil: the answer is cleaned, split into commands and printed.
MainPrint ==
  /\ AfterCall
  /\ result.err.kind = "nil"
  /\ rawText' = result.text
  /\ cleanedText' = <<CleanResponse(result.text)>>
  /\ LET cleaned == CleanResponse(result.text)
         filteredCommands == FilterCommands(SplitLines(cleaned.text))
     IN IF cleaned.panic
        THEN /\ mpc' = "panic"
             /\ UNCHANGED <<out, cmds>>
        ELSE IF Len(filteredCommands) = 0
        THEN /\ out' = Append(out,
                    Event("stdout", <<"No valid commands generated.">>))
             /\ mpc' = "exit1"
             /\ cmds' = cmds
        ELSE /\ out' = Append(out,
                    Event("stdout", JoinLines(filteredCommands)))
             /\ mpc' = "clip"
             /\ cmds' = filteredCommands
  /\ UNCHANGED <<maxRetries, pc, attempt, resp, result, sleeps, outcomes,
                 reqVars, sent, spinVars>>

\* clipboard.CopyToClipboard(fullCommand); a failure is at most a warning.
MainClipboard ==
  /\ mpc = "clip"
  /\ \E failed \in BOOLEAN, warn \in BOOLEAN :
       out' = Append(out, Event("clipboard", JoinLines(cmds)))
                \o (IF failed /\ warn
                    THEN <<Event("stderr",
                                 <<"Warning: Could not copy to clipboard">>)>>
                    ELSE <<>>)
  /\ mpc' = "log"
  /\ UNCHANGED <<maxRetries, pc, attempt, resp, result, sleeps, outcomes,
                 reqVars, sent, cmds, cleanVars, spinVars>>

\* config.LogHistory(question, filteredCommands); a failure is a warning.
MainHistory ==
  /\ mpc = "log"
  /\ \E failed \in BOOLEAN :
       out' = Append(out, Event("history", cmds))
                \o (IF failed
                    THEN <<Event("stderr",
                                 <<"Warning: Failed to write history">>)>>
                    ELSE <<>>)
  /\ mpc' = "exit0"
  /\ UNCHANGED <<maxRetries, pc, attempt, resp, result, sleeps, outcomes,
                 reqVars, sent, cmds, cleanVars, spinVars>>

Next ==
  \/ Entry
  \/ LoopCond
  \/ DoError
  \/ DoResponse
  \/ ReadError
  \/ ReadBody
  \/ SleepReturn
  \/ MainError
  \/ MainPrint
  \/ MainClipboard
  \/ MainHistory

Spec == Init /\ [][Next]_vars

\* The steps of GenerateResponse.
CallStep ==
  \/ Entry
  \/ LoopCond
  \/ DoError
  \/ DoResponse
  \/ ReadError
  \/ ReadBody
  \/ SleepReturn

\* Every exchange and every sleep returns and the calling goroutine runs on:
\* a step of the call that can be taken is taken.
FairSpec == Spec /\ WF_vars(CallStep)

(***************************************************************************)
(* The spinner of package ui and main's use of it around the call.         *)
(* Successive frames overwrite one terminal line ("\r"), so a frame        *)
(* written over a frame leaves the output as it was.                       *)
(***************************************************************************)
\* The retry budget main passes to api.GenerateResponse.
MainRetries == 3

SpinInit ==
  /\ maxRetries = MainRetries
  /\ howModel = <<>>
  /\ url = NoURL
  /\ reqBody = NoBody
  /\ sent = <<>>
  /\ mpc = "start"
  /\ out = <<>>
  /\ cmds = <<>>
  /\ rawText = <<>>
  /\ cleanedText = <<>>
  /\ silent \in BOOLEAN
  /\ spc = "idle"
  /\ stop = FALSE
  /\ wg = 0
  /\ pc = "entry"
  /\ attempt = 0
  /\ resp = NoResp
  /\ result = NoResult
  /\ sleeps = <<>>
  /\ outcomes = <<>>

\* if !silent { spinner = ui.NewSpinner("Generating"); spinner.Start() }
\* Start: s.wg.Add(1) and the go statement.
MainStart ==
  /\ mpc = "start"
  /\ IF silent
     THEN UNCHANGED <<spc, wg>>
     ELSE /\ wg' = wg + 1
          /\ spc' = "select"
  /\ mpc' = "call"
  /\ UNCHANGED <<maxRetries, pc, attempt, resp, result, sleeps, outcomes,
                 reqVars, sent, out, cmds, cleanVars, silent, stop>>

\* if !silent && spinner != nil { spinner.Stop() }: close(s.stop)
MainStop ==
  /\ pc = "done"
  /\ mpc = "call"
  /\ ~silent
  /\ stop' = TRUE
  /\ mpc' = "wait"
  /\ UNCHANGED <<maxRetries, pc, attempt, resp, result, sleeps, outcomes,
                 reqVars, sent, out, cmds, cleanVars, silent, spc, wg>>

\* Stop returning before the animation goroutine is done.
MainWaitNoWait ==
  /\ mpc = "wait"
  /\ mpc' = "stopped"
  /\ UNCHANGED <<maxRetries, pc, attempt, resp, result, sleeps, outcomes,
                 reqVars, sent, out, cmds, cleanVars, spinVars>>

\* s.wg.Wait() returns when the counter is zero.
MainWait ==
  /\ mpc = "wait"
  /\ wg = 0
  /\ mpc' = "stopped"
  /\ UNCHANGED <<maxRetries, pc, attempt, resp, result, sleeps, outcomes,
                 reqVars, sent, out, cmds, cleanVars, spinVars>>

\* select: case <-s.stop is taken when the channel is closed, else default.
SpinSelect ==
  /\ spc = "select"
  /\ spc' = IF stop THEN "clear" ELSE "frame"
  /\ UNCHANGED <<maxRetries, pc, attempt, resp, result, sleeps, outcomes,
                 reqVars, sent, mpc, out, cmds, cleanVars, silent, stop, wg>>

\* default: the next frame is printed and the goroutine sleeps 100 ms.
SpinFrame ==
  /\ spc = "frame"
  /\ out' = IF out # <<>> /\ out[Len(out)].ev = "frame"
            THEN out
            ELSE Append(out, Event("frame", <<"Generating">>))
  /\ spc' = "select"
  /\ UNCHANGED <<maxRetries, pc, attempt, resp, result, sleeps, outcomes,
                 reqVars, sent, mpc, cmds, cleanVars, silent, stop, wg>>

\* case <-s.stop: the line is cleared, the goroutine returns, wg.Done().
SpinClear ==
  /\ spc = "clear"
  /\ out' = Append(out, Event("clear", <<>>))
  /\ spc' = "exited"
  /\ wg' = wg - 1
  /\ UNCHANGED <<maxRetries, pc, attempt, resp, result, sleeps, outcomes,
                 reqVars, sent, mpc, cmds, cleanVars, silent, stop>>

\* The steps of the animation goroutine.
SpinStep ==
  \/ SpinSelect
  \/ SpinFrame
  \/ SpinClear

SpinNext ==
  \/ MainStart
  \/ Next
  \/ MainStop
  \/ MainWait
  \/ SpinStep

SpinSpec == SpinInit /\ [][SpinNext]_vars

\* The animation goroutine and main are scheduled: a step of the goroutine,
\* and the return of Stop, is taken when it stays possible.
FairSpinSpec ==
  SpinSpec /\ WF_vars(SpinStep) /\ WF_vars(MainStop \/ MainWait)

(***************************************************************************)
(* ui.CleanResponse on its own: called once with any text over a small     *)
(* alphabet of a backquote, a letter and a line feed, which is white space *)
(* for strings.TrimSpace and the separator of strings.SplitN.              *)
(***************************************************************************)
CleanAlphabet == {Backquote, "l", "\n"}

InputTexts == SeqUpTo(CleanAlphabet, MaxTextLen)

CleanInit ==
  /\ rawText \in InputTexts
  /\ cleanedText = <<>>
  /\ maxRetries = MainRetries
  /\ howModel = <<>>
  /\ url = NoURL
  /\ reqBody = NoBody
  /\ sent = <<>>
  /\ mpc = "call"
  /\ out = <<>>
  /\ cmds = <<>>
  /\ silent = TRUE
  /\ spc = "idle"
  /\ stop = FALSE
  /\ wg = 0
  /\ pc = "entry"
  /\ attempt = 0
  /\ resp = NoResp
  /\ result = NoResult
  /\ sleeps = <<>>
  /\ outcomes = <<>>

\* cleanedText := ui.CleanResponse(text)
CallCleanResponse ==
  /\ cleanedText = <<>>
  /\ cleanedText' = <<CleanResponse(rawText)>>
  /\ UNCHANGED <<maxRetries, pc, attempt, resp, result, sleeps, outcomes,
                 reqVars, sent, mpc, out, cmds, rawText, spinVars>>

CleanNext == CallCleanResponse

CleanSpec == CleanInit /\ [][CleanNext]_vars

(***************************************************************************)
(* Vocabulary of the properties.                                           *)
(***************************************************************************)
TypeOK ==
  /\ maxRetries \in RetriesRange
  /\ pc \in {"entry", "loop", "do", "read", "sleep", "done"}
  /\ attempt \in 0..MaxRetriesBound
  /\ Len(sleeps) <= MaxRetriesBound
  /\ Len(outcomes) <= MaxRetriesBound
  /\ Len(sent) <= MaxRetriesBound
  /\ mpc \in {"start", "call", "wait", "stopped",
              "clip", "log", "exit0", "exit1", "panic"}
  /\ Len(cleanedText) <= 1
  /\ silent \in BOOLEAN
  /\ spc \in {"idle", "select", "frame", "clear", "exited"}
  /\ stop \in BOOLEAN
  /\ wg \in 0..1

Last == outcomes[Len(outcomes)]

\* The most recent exchange delivered a status and a body, and the loop
\* iteration has acted on them.
Classified ==
  /\ pc \in {"sleep", "loop", "done"}
  /\ outcomes # <<>>
  /\ Last.kind = "status"
  /\ resp # NoResp

Returned == pc = "done"

NoSleepAfterLast == Len(sleeps) = Len(outcomes) - 1

IsAnswer == Returned /\ result.err.kind = "nil"

Failed(kind, message) ==
  /\ Returned
  /\ result.text = <<>>
  /\ result.err.kind = kind
  /\ result.err.fmt = message

AllWhitespace(s) == \A k \in DOMAIN s : s[k] \in Whitespace

Blocked(body) == body.PromptFeedback # <<>> /\ body.PromptFeedback[1] # ""

HasFirstPart(body) ==
  /\ Len(body.Candidates) > 0
  /\ Len(body.Candidates[1].Parts) > 0

FirstPart(body) == body.Candidates[1].Parts[1]

\* A parsed, unblocked body whose first candidate's first part has text.
ValidBody(body) ==
  /\ body.ok
  /\ ~Blocked(body)
  /\ HasFirstPart(body)
  /\ ~AllWhitespace(FirstPart(body))

\* t is s without its leading and trailing whitespace.
IsTrimOf(t, s) ==
  \E i \in 1..(Len(s) + 1), j \in 0..Len(s) :
    /\ i <= j + 1
    /\ t = SubSeq(s, i, j)
    /\ \A k \in 1..(i - 1) : s[k] \in Whitespace
    /\ \A k \in (j + 1)..Len(s) : s[k] \in Whitespace
    /\ t # <<>> => (t[1] \notin Whitespace /\ t[Len(t)] \notin Whitespace)

AllOutcomes(kind, status) ==
  \A i \in DOMAIN outcomes :
    outcomes[i].kind = kind /\ outcomes[i].status = status

(***************************************************************************)
(* C1.  When every attempt ends in a timeout reported by client.Do, the    *)
(* call does not return before maxRetries attempts, returns the Timeout    *)
(* failure "API request timed out" after exactly maxRetries attempts, and  *)
(* the sleeps are 2^0, 2^1, ..., 2^(maxRetries-2) seconds in that order,   *)
(* with no sleep after the last attempt.                                   *)
(***************************************************************************)
C1_AllTimeouts ==
  (maxRetries >= 1 /\ AllOutcomes("timeout", 0)) =>
    /\ Len(outcomes) <= maxRetries
    /\ Returned <=> Len(outcomes) = maxRetries
    /\ Returned => /\ Failed("Timeout", "API request timed out")
                   /\ result.err.args = <<>>
                   /\ NoSleepAfterLast
    /\ ~Returned => Len(sleeps) = Len(outcomes)
    /\ \A i \in DOMAIN sleeps : sleeps[i] = 2 ^ (i - 1)

C1_Witness ==
  /\ Returned
  /\ maxRetries = 3
  /\ Len(outcomes) = 3
  /\ AllOutcomes("timeout", 0)
  /\ sleeps = <<1, 2>>

(***************************************************************************)
(* C2.  When the first maxRetries-1 attempts return HTTP 429 and the last  *)
(* returns HTTP 200 with a valid body, the call returns the answer after   *)
(* exactly maxRetries-1 sleeps; the sleep after attempt n is 2^n + 1       *)
(* seconds, strictly longer than the timeout backoff of attempt n.         *)
(***************************************************************************)
RateLimitedThenOK ==
  /\ Len(outcomes) = maxRetries
  /\ \A i \in 1..(maxRetries - 1) :
       outcomes[i].kind = "status" /\ outcomes[i].status = 429
  /\ Last.kind = "status" /\ Last.status = 200
  /\ Classified
  /\ ValidBody(resp.Body)

C2_RateLimitedThenAnswer ==
  /\ (maxRetries >= 1 /\ AllOutcomes("status", 429)
        /\ Len(outcomes) < maxRetries) =>
       /\ ~Returned
       /\ Len(sleeps) = Len(outcomes)
       /\ \A i \in DOMAIN sleeps : sleeps[i] = 2 ^ (i - 1) + 1
  /\ (maxRetries >= 1 /\ RateLimitedThenOK) =>
       /\ IsAnswer
       /\ IsTrimOf(result.text, FirstPart(resp.Body))
       /\ Len(sleeps) = maxRetries - 1
       /\ \A i \in DOMAIN sleeps :
            /\ sleeps[i] = 2 ^ (i - 1) + 1
            /\ sleeps[i] > TimeoutBackoff(i - 1)

C2_Witness ==
  /\ maxRetries = 3
  /\ RateLimitedThenOK
  /\ IsAnswer
  /\ sleeps = <<2, 3>>

(***************************************************************************)
(* C3 as stated.  A returned Timeout failure means that every attempt of   *)
(* the call ended in a timeout.                                            *)
(***************************************************************************)
C3_TimeoutMeansAllTimedOut ==
  (Returned /\ result.err.kind = "Timeout") => AllOutcomes("timeout", 0)

Retryable(o) ==
  \/ o.kind = "timeout"
  \/ o.kind = "status" /\ o.status = 429

(***************************************************************************)
(* C3 as amended.  A returned Timeout failure means that the last attempt, *)
(* the one with index maxRetries-1, ended in a timeout reported by         *)
(* client.Do and every earlier attempt ended in a timeout or an HTTP 429.  *)
(***************************************************************************)
C3_TimeoutMeansLastTimedOut ==
  (Returned /\ result.err.kind = "Timeout") =>
    /\ maxRetries >= 1
    /\ Len(outcomes) = maxRetries
    /\ Last.kind = "timeout"
    /\ \A i \in DOMAIN outcomes : Retryable(outcomes[i])
    /\ Failed("Timeout", "API request timed out")

C3_Witness ==
  /\ Returned
  /\ result.err.kind = "Timeout"
  /\ maxRetries = 3
  /\ outcomes[1].kind = "status"
  /\ outcomes[2].kind = "timeout"

(***************************************************************************)
(* C4.  A transport error of client.Do that is not a timeout ends the call *)
(* at once with an Api failure, on whatever attempt it occurs: no sleep    *)
(* follows it and no further attempt is started.                           *)
(***************************************************************************)
C4_ConnectionFailureIsTerminal ==
  \A i \in DOMAIN outcomes :
    outcomes[i].kind = "connfail" =>
      /\ i = Len(outcomes)
      /\ Failed("Api", "Request failed: %v")
      /\ NoSleepAfterLast
      /\ attempt = i - 1

C4_Witness ==
  /\ maxRetries = 3
  /\ Len(outcomes) = 2
  /\ Last.kind = "connfail"
  /\ Returned
  /\ attempt = 1

(***************************************************************************)
(* C5.  When the attempt with index maxRetries-1 returns HTTP 429 the call *)
(* returns the Api failure "Rate limit exceeded", without a sleep after    *)
(* that attempt, whatever retryable outcomes came before.                  *)
(***************************************************************************)
C5_RateLimitOnLastAttempt ==
  (maxRetries >= 1 /\ Len(outcomes) = maxRetries
     /\ Last.kind = "status" /\ Last.status = 429) =>
    /\ Failed("Api", "Rate limit exceeded")
    /\ result.err.args = <<>>
    /\ NoSleepAfterLast
    /\ attempt = maxRetries - 1

C5_Witness ==
  /\ maxRetries = 3
  /\ Len(outcomes) = 3
  /\ outcomes[1].kind = "timeout"
  /\ Last.kind = "status" /\ Last.status = 429
  /\ Returned

SuccessRange == 200..299

\* The delivered status is neither 429 nor in the 2xx success range.
ErrorStatus(status) == status # 429 /\ status \notin SuccessRange

C7_SuccessRangeIsDecoded ==
  Classified =>
    /\ (Returned /\ result.err.fmt = "API returned status %d: %s")
         <=> ErrorStatus(resp.StatusCode)
    /\ (resp.StatusCode \in SuccessRange /\ ValidBody(resp.Body)) => IsAnswer

(***************************************************************************)
(* C8.  A parsed response with a non-empty block reason R yields the       *)
(* Content failure "Blocked: R" on the attempt where it arrives, with no   *)
(* sleep and no further attempt even when attempts remain.                 *)
(***************************************************************************)
C8_BlockedIsTerminal ==
  (Classified /\ resp.StatusCode = 200 /\ resp.Body.ok
     /\ Blocked(resp.Body)) =>
    /\ Failed("Content", "Blocked: %s")
    /\ result.err.args = <<resp.Body.PromptFeedback[1]>>
    /\ NoSleepAfterLast
    /\ attempt = Len(outcomes) - 1

C8_Witness ==
  /\ Classified
  /\ resp.StatusCode = 200
  /\ resp.Body.ok
  /\ resp.Body.PromptFeedback = <<"SAFETY">>
  /\ HasFirstPart(resp.Body)
  /\ maxRetries = 3
  /\ attempt = 0
  /\ Returned

(***************************************************************************)
(* C9.  A parsed, unblocked response with no candidate yields the Content  *)
(* failure "Empty response from API"; one whose first candidate has no     *)
(* part yields "No content parts in response"; neither is retried.         *)
(***************************************************************************)
C9_EmptyCandidatesOrParts ==
  (Classified /\ resp.StatusCode = 200 /\ resp.Body.ok
     /\ ~Blocked(resp.Body)) =>
    /\ Len(resp.Body.Candidates) = 0 =>
         /\ Failed("Content", "Empty response from API")
         /\ NoSleepAfterLast
    /\ (Len(resp.Body.Candidates) > 0
          /\ Len(resp.Body.Candidates[1].Parts) = 0) =>
         /\ Failed("Content", "No content parts in response")
         /\ NoSleepAfterLast

C9_Witness ==
  /\ Classified
  /\ resp.StatusCode = 200
  /\ resp.Body.ok
  /\ ~Blocked(resp.Body)
  /\ Len(resp.Body.Candidates) = 2
  /\ Len(resp.Body.Candidates[1].Parts) = 0
  /\ maxRetries = 3
  /\ attempt = 0
  /\ Returned

(***************************************************************************)
(* C10.  A returned answer is the first candidate's first part of the last *)
(* response without its leading and trailing whitespace, and is neither    *)
(* empty nor whitespace-only; a first part that is empty after trimming    *)
(* yields the Content failure "Empty response from API".                   *)
(***************************************************************************)
C10_AnswerIsTrimmedFirstPart ==
  /\ IsAnswer =>
       /\ Classified
       /\ HasFirstPart(resp.Body)
       /\ IsTrimOf(result.text, FirstPart(resp.Body))
       /\ result.text # <<>>
       /\ ~AllWhitespace(result.text)
  /\ (Classified /\ resp.StatusCode = 200 /\ resp.Body.ok
        /\ ~Blocked(resp.Body) /\ HasFirstPart(resp.Body)
        /\ AllWhitespace(FirstPart(resp.Body))) =>
       /\ Failed("Content", "Empty response from API")
       /\ NoSleepAfterLast

C10_Witness ==
  /\ IsAnswer
  /\ FirstPart(resp.Body) = <<" ", "l", "s", " ", "-", "l", "\t", "\n">>
  /\ result.text = <<"l", "s", " ", "-", "l">>

(***************************************************************************)
(* C11.  The checks on a response are applied in order and the first match *)
(* wins: HTTP 429 is rate-limited whatever the body holds; an error status *)
(* is reported before the body is parsed; a non-empty block reason yields  *)
(* the Blocked failure even when the response also carries a valid         *)
(* candidate; an empty candidate list is reported as such.                 *)
(***************************************************************************)
C11_FirstMatchWins ==
  (Classified /\ maxRetries >= 1) =>
    /\ resp.StatusCode = 429 =>
         IF Len(outcomes) = maxRetries
         THEN Failed("Api", "Rate limit exceeded")
         ELSE ~Returned /\ sleeps[Len(outcomes)] = 2 ^ (Len(outcomes) - 1) + 1
    /\ ErrorStatus(resp.StatusCode) =>
         Failed("Api", "API returned status %d: %s")
    /\ (resp.StatusCode = 200 /\ ~resp.Body.ok) =>
         Failed("Api", "Failed to parse response: %v")
    /\ (resp.StatusCode = 200 /\ resp.Body.ok /\ Blocked(resp.Body)) =>
         /\ Failed("Content", "Blocked: %s")
         /\ result.err.args = <<resp.Body.PromptFeedback[1]>>
    /\ (resp.StatusCode = 200 /\ resp.Body.ok /\ ~Blocked(resp.Body)
          /\ Len(resp.Body.Candidates) = 0) =>
         Failed("Content", "Empty response from API")

C11_Witness ==
  /\ Classified
  /\ Returned
  /\ resp.StatusCode = 200
  /\ resp.Body.ok
  /\ Blocked(resp.Body)
  /\ HasFirstPart(resp.Body)
  /\ FirstPart(resp.Body) = <<"l", "s">>

(***************************************************************************)
(* C12.  Only the first candidate and its first part decide the outcome:   *)
(* an empty parts list or an empty or whitespace-only first part is a      *)
(* Content failure whatever later parts and candidates hold, and a         *)
(* non-empty first part is the answer whatever follows it.                 *)
(***************************************************************************)
C12_OnlyFirstCandidateFirstPart ==
  (Classified /\ resp.StatusCode = 200 /\ resp.Body.ok
     /\ ~Blocked(resp.Body) /\ Len(resp.Body.Candidates) > 0) =>
    LET parts == resp.Body.Candidates[1].Parts
    IN /\ Len(parts) = 0 => Failed("Content", "No content parts in response")
       /\ (Len(parts) > 0 /\ AllWhitespace(parts[1])) =>
            Failed("Content", "Empty response from API")
       /\ (Len(parts) > 0 /\ ~AllWhitespace(parts[1])) =>
            /\ IsAnswer
            /\ IsTrimOf(result.text, parts[1])

C12_Witness ==
  /\ Classified
  /\ Returned
  /\ resp.StatusCode = 200
  /\ resp.Body.ok
  /\ ~Blocked(resp.Body)
  /\ Len(resp.Body.Candidates) = 2
  /\ resp.Body.Candidates[1].Parts = << <<" ", "\n">>, <<"p", "w", "d">> >>
  /\ resp.Body.Candidates[2].Parts = << <<"p", "w", "d">> >>
  /\ result.err.kind = "Content"

(***************************************************************************)
(* C13.  Provided every exchange and every sleep returns, the call         *)
(* eventually returns; for maxRetries >= 1 it has then made between one    *)
(* and maxRetries attempts; and once it has returned, its result is fixed  *)
(* and no further attempt or sleep is made.                                *)
(***************************************************************************)
C13_EventuallyOneResult ==
  /\ <>Returned
  /\ [](Returned /\ maxRetries >= 1 =>
          Len(sent) >= 1 /\ Len(sent) <= maxRetries
            /\ Len(outcomes) = Len(sent))
  /\ [][Returned => /\ Returned'
                    /\ result' = result
                    /\ sent' = sent
                    /\ outcomes' = outcomes
                    /\ sleeps' = sleeps]_vars

C13_Witness ==
  /\ Returned
  /\ maxRetries = 3
  /\ Len(sent) = 3
  /\ Len(sleeps) = 2
  /\ mpc = "exit0"

(***************************************************************************)
(* C14.  Every result is either an answer, a non-empty text with a nil     *)
(* error, or a failure, an empty text with an error of exactly one of the  *)
(* kinds Api, Content and Timeout; never of kind Auth.                     *)
(***************************************************************************)
C14_AnswerOrFailure ==
  Returned =>
    /\ \/ result.err.kind = "nil" /\ result.text # <<>>
       \/ result.err.kind \in {"Api", "Content", "Timeout"}
            /\ result.text = <<>>
    /\ result.err.kind # "Auth"

C14_Witness ==
  /\ Returned
  /\ Classified
  /\ resp.StatusCode = 200
  /\ HasFirstPart(resp.Body)
  /\ FirstPart(resp.Body) = <<" ", "\n">>
  /\ result.err.kind = "Content"
  /\ result.text = <<>>

\* Model names without a namespace prefix.
BareModels == {m \in HowModels : m # <<>> /\ Head(m) # "models/"}

URLOf(name) ==
  <<"https://generativelanguage.googleapis.com/v1beta/models/">>
    \o name \o <<":generateContent?key=">>

(***************************************************************************)
(* C15.  For a model name X, HOW_MODEL = "models/X" and HOW_MODEL = "X"    *)
(* give the same model identifier X in the endpoint URL of every request,  *)
(* and an unset HOW_MODEL gives the default "gemini-2.5-flash".            *)
(***************************************************************************)
C15_ModelPrefixStripped ==
  pc # "entry" =>
    /\ \A X \in BareModels :
         (howModel = X \/ howModel = <<"models/">> \o X) =>
           /\ SubSeq(url, 1, Len(url) - 1) = URLOf(X)
           /\ \A i \in DOMAIN sent :
                SubSeq(sent[i].url, 1, Len(url) - 1) = URLOf(X)
    /\ howModel = <<>> =>
         /\ SubSeq(url, 1, Len(url) - 1) = URLOf(<<"gemini-2.5-flash">>)
         /\ \A i \in DOMAIN sent :
              SubSeq(sent[i].url, 1, Len(url) - 1)
                = URLOf(<<"gemini-2.5-flash">>)

C15_Witness ==
  /\ howModel = <<"models/", "gemini-pro">>
  /\ Len(sent) = 2
  /\ sent[2].url =
       <<"https://generativelanguage.googleapis.com/v1beta/models/",
         "gemini-pro", ":generateContent?key=", "AIza-key">>

Delivered(i) == out[i].ev \in {"clipboard", "history"}

(***************************************************************************)
(* C16.  main copies to the clipboard and logs to the history only after   *)
(* GenerateResponse has returned an answer: never before the call returns, *)
(* never when it returned a failure, and only after the answer has been    *)
(* printed.                                                                *)
(***************************************************************************)
C16_DeliveryOnlyAfterAnswer ==
  /\ ~Returned => out = <<>>
  /\ (Returned /\ result.err.kind # "nil") =>
       \A i \in DOMAIN out : ~Delivered(i)
  /\ \A i \in DOMAIN out :
       Delivered(i) =>
         /\ IsAnswer
         /\ \E j \in 1..(i - 1) :
              out[j].ev = "stdout" /\ out[j].data = JoinLines(cmds)

C16_Witness ==
  /\ mpc = "exit0"
  /\ result.text = <<"l", "s", " ", "-", "l">>
  /\ \E i \in DOMAIN out : out[i].ev = "clipboard"
  /\ \E i \in DOMAIN out : out[i].ev = "history"
  /\ maxRetries = 3
  /\ Len(sent) = 2

InFlight == Len(sent) - Len(outcomes)

(***************************************************************************)
(* C17.  Every attempt of a call sends the same request: the URL built at  *)
(* entry and the body holding the prompt, whatever the earlier attempts'   *)
(* outcomes were.                                                          *)
(***************************************************************************)
C17_RequestNeverMutated ==
  /\ InFlight = (IF pc \in {"do", "read"} THEN 1 ELSE 0)
  /\ \A i \in DOMAIN sent :
       /\ sent[i] = sent[1]
       /\ sent[i].method = "POST"
       /\ sent[i].url = url
       /\ sent[i].json = <<"contents", reqBody.Contents>>
       /\ Len(reqBody.Contents) = 1
       /\ Len(reqBody.Contents[1].Parts) = 1
       /\ reqBody.Contents[1].Parts[1].Text \in Prompts

C17_Witness ==
  /\ maxRetries = 3
  /\ Len(sent) = 3
  /\ outcomes[1].kind = "status"
  /\ outcomes[2].kind = "timeout"

BackoffOf(i) ==
  IF outcomes[i].kind = "timeout" THEN 2 ^ (i - 1) ELSE 2 ^ (i - 1) + 1

(***************************************************************************)
(* C18.  For every interleaving of timeouts and HTTP 429, an attempt with  *)
(* index n < maxRetries-1 that ends in one of them is followed by exactly  *)
(* one sleep, of 2^n seconds after a timeout and 2^n + 1 after a 429       *)
(* whatever happened before, and then by attempt n+1; and attempt n+1 is   *)
(* started only after such an outcome of attempt n.                        *)
(***************************************************************************)
C18_RetryableThenBackoff ==
  maxRetries >= 1 =>
    /\ \A i \in DOMAIN outcomes :
         (i < maxRetries /\ Retryable(outcomes[i])) =>
           /\ Len(sleeps) >= i
           /\ sleeps[i] = BackoffOf(i)
    /\ Len(sleeps) = Cardinality({i \in DOMAIN outcomes :
                                    i < maxRetries /\ Retryable(outcomes[i])})
    /\ \A i \in DOMAIN sent : i > 1 => Retryable(outcomes[i - 1])
    /\ Len(sent) <= Len(sleeps) + 1
    /\ pc = "loop" => attempt = Len(outcomes) /\ attempt < maxRetries
    /\ pc \in {"do", "read"} => Len(sent) = attempt + 1
    /\ (Returned /\ Retryable(Last)) => Len(outcomes) = maxRetries

C18_Witness ==
  /\ maxRetries = 3
  /\ Len(sent) = 3
  /\ outcomes[1].kind = "timeout"
  /\ outcomes[2].kind = "status"
  /\ sleeps = <<1, 3>>
  /\ pc = "do"

(***************************************************************************)
(* C19.  A deadline that expires while the response body is read is        *)
(* treated like a timeout of client.Do: backoff and a further attempt when *)
(* attempts remain, the Timeout failure on the last attempt.               *)
(***************************************************************************)
C19_ReadTimeoutIsRetried ==
  \A i \in DOMAIN outcomes :
    outcomes[i].kind = "readtimeout" =>
      IF i < maxRetries
      THEN Len(sleeps) >= i /\ sleeps[i] = 2 ^ (i - 1) /\ ~(Returned /\ Len(outcomes) = i)
      ELSE Failed("Timeout", "API request timed out")

(***************************************************************************)
(* C20.  During a call with maxRetries >= 1 the attempt counter stays in   *)
(* [0, maxRetries) and changes only by +1; at most one attempt is in       *)
(* flight, and none during a sleep; at return the number of sleeps is the  *)
(* number of attempts minus one.                                           *)
(***************************************************************************)
C20_CounterAndSleeps ==
  /\ [](maxRetries >= 1 =>
          /\ attempt \in 0..(maxRetries - 1)
          /\ InFlight \in {0, 1}
          /\ InFlight = 1 <=> pc \in {"do", "read"}
          /\ pc \in {"do", "read"} => attempt = Len(sent) - 1
          /\ pc = "sleep" => InFlight = 0 /\ Len(sleeps) = Len(sent)
          /\ pc # "sleep" => Len(sleeps) = attempt
          /\ Returned => Len(sleeps) = Len(sent) - 1)
  /\ [][attempt' = attempt \/ attempt' = attempt + 1]_vars

C20_Witness ==
  /\ Returned
  /\ maxRetries = 3
  /\ attempt = 2
  /\ Len(sent) = 3
  /\ Len(sleeps) = 2

MaxRetriesExceeded == Failed("Api", "Max retries exceeded")

(***************************************************************************)
(* C21.  The result Api "Max retries exceeded" is never returned when      *)
(* maxRetries >= 1, where every call ends through the outcome of one of    *)
(* its attempts; it is returned exactly when maxRetries <= 0, and then no  *)
(* request has been sent and no sleep performed.                           *)
(***************************************************************************)
C21_MaxRetriesExceededOnlyWithoutAttempts ==
  Returned =>
    /\ MaxRetriesExceeded <=> maxRetries <= 0
    /\ maxRetries >= 1 =>
         /\ outcomes # <<>>
         /\ Len(outcomes) = Len(sent)
         /\ result.err.fmt # "Max retries exceeded"
    /\ maxRetries <= 0 =>
         sent = <<>> /\ outcomes = <<>> /\ sleeps = <<>>

C21_Witness ==
  /\ Returned
  /\ maxRetries = 0
  /\ MaxRetriesExceeded
  /\ sent = <<>>
  /\ mpc = "exit1"

\* Stop has been called and has returned.
StopReturned == ~silent /\ mpc \notin {"start", "call", "wait"}

\* What the animation goroutine has written.
SpinnerOutput(o) == SelectSeq(o, LAMBDA e : e.ev \in {"frame", "clear"})

\* An answer or an error message written by main.
IsMessage(e) == e.ev \in {"stdout", "stderr"}

(***************************************************************************)
(* C22.  After Start, the one call of Stop returns; once it has returned   *)
(* the animation goroutine has exited, having cleared its line, and writes *)
(* nothing more; and main writes an answer or an error message only after  *)
(* Stop has returned when the spinner was started, whether                 *)
(* GenerateResponse returned an answer or a failure.  Without the spinner  *)
(* (silent) nothing of it is ever written.                                 *)
(***************************************************************************)
C22_SpinnerStoppedBeforeOutput ==
  /\ (mpc = "wait") ~> (mpc = "stopped")
  /\ [](StopReturned =>
          /\ spc = "exited"
          /\ wg = 0
          /\ SpinnerOutput(out) # <<>>
          /\ SpinnerOutput(out)[Len(SpinnerOutput(out))].ev = "clear")
  /\ [][StopReturned =>
          spc' = spc /\ SpinnerOutput(out') = SpinnerOutput(out)]_vars
  /\ [](\A i \in DOMAIN out :
          (IsMessage(out[i]) /\ ~silent) =>
            /\ StopReturned
            /\ \E j \in 1..(i - 1) : out[j].ev = "clear"
            /\ \A k \in (i + 1)..Len(out) : out[k].ev \notin {"frame", "clear"})
  /\ [](silent => spc = "idle" /\ SpinnerOutput(out) = <<>>)
  /\ [](~silent /\ mpc \in {"call", "wait"} => ~\E i \in DOMAIN out : IsMessage(out[i]))

C22_Witness ==
  /\ ~silent
  /\ mpc = "exit0"
  /\ Len(out) >= 4
  /\ out[1].ev = "frame"
  /\ out[2].ev = "clear"
  /\ out[3].ev = "stdout"
  /\ spc = "exited"

\* The text starts and ends with the fence / with one backquote.
Fenced(t) == HasPrefix(t, Fence) /\ HasSuffix(t, Fence)

Quoted(t) == HasPrefix(t, <<Backquote>>) /\ HasSuffix(t, <<Backquote>>)

\* What lies between the opening fence line, or the opening fence of a
\* one-line text, and the closing fence; nothing when the two overlap.
BetweenFences(t) ==
  IF FirstLine(t) # t
  THEN SubSeq(t, Len(FirstLine(t)) + 1, Len(t) - 3)
  ELSE SubSeq(t, 4, Len(t) - 3)

BetweenQuotes(t) == SubSeq(t, 2, Len(t) - 1)

(***************************************************************************)
(* C23.  CleanResponse returns a value for every text: the trimmed content *)
(* between the fences when the trimmed text starts and ends with the       *)
(* fence, one-line fences and texts of backquotes alone included; the      *)
(* trimmed content between the backquotes when it starts and ends with one *)
(* backquote, the text of one backquote included; else the trimmed text.   *)
(***************************************************************************)
C23_CleanResponseAlwaysReturns ==
  cleanedText # <<>> =>
    LET t == TrimSpace(rawText)
        r == cleanedText[1]
    IN /\ ~r.panic
       /\ r.text = IF Fenced(t) THEN TrimSpace(BetweenFences(t))
                   ELSE IF Quoted(t) THEN TrimSpace(BetweenQuotes(t))
                   ELSE t

====
